---------------------------- MODULE Spec2Model ----------------------------
(***************************************************************************)
(* A model of CitiesIterator.py: the City record, the constructor of       *)
(* CitiesIterator (validation of the raw records, construction of the     *)
(* City list, the optional sort), set_population_filter, __iter__ and     *)
(* __next__.                                                              *)
(*                                                                         *)
(* A Python dict is a record with a field `keys` (the set of keys it      *)
(* holds) and one field per possible key; reading a key outside `keys`    *)
(* is a KeyError.  A raw coordinate is a tagged value: a JSON string (a   *)
(* sequence of characters), a JSON number or null.  An exception is the   *)
(* name of its class; "none" is a normal return.                          *)
(***************************************************************************)
EXTENDS Integers, Sequences, FiniteSets, TLC

VARIABLES
    cities_data,     \* constructor argument: the list of raw records
    arg_sort_by,     \* constructor argument sort_by (NoSort for None)
    arg_reverse,     \* constructor argument reverse
    phase,           \* "new": not constructed; "ready": object exists; "failed": __init__ raised
    cities,          \* self.cities
    built,           \* number of City objects __init__ has built
    has_index,       \* whether the attribute self.index exists
    index,           \* self.index (0-based), meaningful when has_index
    min_population,  \* self.min_population
    exc,             \* exception raised by the last call, "none" if it returned
    ret,             \* <<city>> returned by the last __next__, <<>> otherwise
    last,            \* the last operation called
    yielded,         \* 0-based positions returned since the last __iter__
    examined,        \* cities the last __next__ looked at
    iter_floor,      \* the floor when __iter__ was last called
    floor_changed,   \* the floor was changed since the last __iter__
    exhausted,       \* a __next__ since the last __iter__ raised StopIteration
    has_prev,        \* a full traversal under the current floor was completed before
    prev_full,       \* what that traversal yielded
    takers,          \* the consumer that received yielded[k], for each k
    before,          \* per consumer: the positions it had received when __iter__ was last called
    iter_by          \* the consumer that called __iter__ last, 0 when none did

vars == <<cities_data, arg_sort_by, arg_reverse, phase, cities, built,
          has_index, index, min_population, exc, ret, last, yielded,
          examined, iter_floor, floor_changed, exhausted, has_prev, prev_full,
          takers, before, iter_by>>

\* What the consumers sharing the instance keep; untouched by a caller that
\* is not one of them.
consumer_vars == <<takers, before, iter_by>>

Consumers == {1, 2}

---------------------------------------------------------------------------
(* Bounds of the model. *)

MaxLen == 3        \* longest input batch
MaxPop == 1        \* largest population; populations range over -1..MaxPop
MaxBatch == 2      \* longest input batch of raw records that may be malformed
MaxShared == 2     \* longest input batch of an instance two consumers share

Pops == -1 .. MaxPop
Floors == -1 .. (MaxPop + 1)
Alphabet == <<"A", "B", "C", "D", "E", "S">>

---------------------------------------------------------------------------
(* Raw values and float(). *)

Str(s) == [t |-> "str", s |-> s, n |-> 0]
Num(n) == [t |-> "num", s |-> <<>>, n |-> n]
Null == [t |-> "null", s |-> <<>>, n |-> 0]

Digits == {"0", "1", "2"}

DigitVal(c) == CASE c = "0" -> 0 [] c = "1" -> 1 [] c = "2" -> 2

RECURSIVE ParseDigits(_)
ParseDigits(s) ==
    IF s = <<>> THEN 0
    ELSE ParseDigits(SubSeq(s, 1, Len(s) - 1)) * 10 + DigitVal(s[Len(s)])

\* float(v): a number is taken as it is, a string of decimal digits is parsed,
\* any other string is a ValueError, None is a TypeError.
float(v) ==
    CASE v.t = "num" -> [exc |-> "none", val |-> v.n]
      [] v.t = "str" ->
            IF v.s # <<>> /\ \A i \in 1..Len(v.s) : v.s[i] \in Digits
            THEN [exc |-> "none", val |-> ParseDigits(v.s)]
            ELSE [exc |-> "ValueError", val |-> 0]
      [] OTHER -> [exc |-> "TypeError", val |-> 0]

---------------------------------------------------------------------------
(* City and the raw records. *)

CityFields == {"name", "lat", "lon", "district", "population", "subject"}

\* Attributes every Python object has besides its fields (two representatives).
ObjectAttrs == {"__class__", "__doc__"}

\* Those whose values do not order: a class, a method, None have no <.
Unorderable == {"__class__"}

City(name, lat, lon, district, population, subject) ==
    [name |-> name, lat |-> lat, lon |-> lon, district |-> district,
     population |-> population, subject |-> subject]

NoCity == City("", 0, 0, "", 0, "")

required_fields == {"name", "district", "population", "subject", "coords"}
coords_fields == {"lat", "lon"}

Coords(ks, lat, lon) == [keys |-> ks, lat |-> lat, lon |-> lon]

Raw(ks, name, district, population, subject, coords) ==
    [keys |-> ks, name |-> name, district |-> district,
     population |-> population, subject |-> subject, coords |-> coords]

NoSort == "None"

---------------------------------------------------------------------------
(* _validate_data: the first failing check raises ValueError. *)

RECURSIVE validate_from(_, _)
validate_from(data, i) ==
    IF i > Len(data) THEN "none"
    ELSE IF ~(required_fields \subseteq data[i].keys) THEN "ValueError"
    ELSE IF ~(coords_fields \subseteq data[i].coords.keys) THEN "ValueError"
    ELSE validate_from(data, i + 1)

\* Faulty variant of validate_data: only the first record is checked.
validate_data_first_only(data) ==
    IF data = <<>> THEN "none" ELSE validate_from(SubSeq(data, 1, 1), 1)

validate_data(data) == validate_from(data, 1)

(* _create_city: the keyword arguments are evaluated in the order written; *)
(* a KeyError or a ValueError becomes a ValueError, a TypeError of float() *)
(* is not caught.                                                          *)
create_city(d) ==
    IF "name" \notin d.keys THEN [exc |-> "ValueError", city |-> NoCity]
    ELSE IF "coords" \notin d.keys \/ "lat" \notin d.coords.keys
    THEN [exc |-> "ValueError", city |-> NoCity]
    ELSE IF float(d.coords.lat).exc # "none"
    THEN [exc |-> float(d.coords.lat).exc, city |-> NoCity]
    ELSE IF "lon" \notin d.coords.keys THEN [exc |-> "ValueError", city |-> NoCity]
    ELSE IF float(d.coords.lon).exc # "none"
    THEN [exc |-> float(d.coords.lon).exc, city |-> NoCity]
    ELSE IF ~({"district", "population", "subject"} \subseteq d.keys)
    THEN [exc |-> "ValueError", city |-> NoCity]
    ELSE [exc |-> "none",
          city |-> City(d.name, float(d.coords.lat).val, float(d.coords.lon).val,
                        d.district, d.population, d.subject)]

(* The list comprehension of __init__: cities built in input order, until  *)
(* one _create_city raises.                                                *)
RECURSIVE build_from(_, _, _)
build_from(data, i, acc) ==
    IF i > Len(data) THEN [exc |-> "none", cities |-> acc, built |-> Len(acc)]
    ELSE LET c == create_city(data[i]) IN
         IF c.exc # "none" THEN [exc |-> c.exc, cities |-> <<>>, built |-> Len(acc)]
         ELSE build_from(data, i + 1, Append(acc, c.city))

\* Faulty variant of build_cities: each new City goes to the front of the list.
RECURSIVE build_prepend(_, _, _)
build_prepend(data, i, acc) ==
    IF i > Len(data) THEN [exc |-> "none", cities |-> acc, built |-> Len(acc)]
    ELSE LET c == create_city(data[i]) IN
         IF c.exc # "none" THEN [exc |-> c.exc, cities |-> <<>>, built |-> Len(acc)]
         ELSE build_prepend(data, i + 1, <<c.city>> \o acc)

build_cities_reversed(data) == build_prepend(data, 1, <<>>)

build_cities(data) == build_from(data, 1, <<>>)

---------------------------------------------------------------------------
(* sort_by: list.sort(key=getattr(city, parameter), reverse=reverse).      *)

hasattr(city, parameter) == parameter \in CityFields \cup ObjectAttrs

\* Code-point order of the one-letter texts of the model.
Ord(s) == CHOOSE i \in 1..Len(Alphabet) : Alphabet[i] = s

\* getattr(city, parameter), as a number that orders as the attribute does.
SortKey(city, parameter) ==
    CASE parameter = "population" -> city.population
      [] parameter = "lat" -> city.lat
      [] parameter = "lon" -> city.lon
      [] parameter = "name" -> Ord(city.name)
      [] parameter = "district" -> Ord(city.district)
      [] parameter = "subject" -> Ord(city.subject)
      [] parameter = "__doc__" -> 0          \* the same text for every City

\* x goes after every element that does not sort strictly after it: the
\* sort is stable, also with reverse=True.
RECURSIVE insert_sorted(_, _, _, _)
insert_sorted(sorted, x, parameter, reverse) ==
    IF sorted = <<>> THEN <<x>>
    ELSE LET h == Head(sorted)
             after == IF reverse
                      THEN SortKey(h, parameter) < SortKey(x, parameter)
                      ELSE SortKey(h, parameter) > SortKey(x, parameter)
         IN IF after THEN <<x>> \o sorted
            ELSE <<h>> \o insert_sorted(Tail(sorted), x, parameter, reverse)

Reverse(q) == [k \in 1..Len(q) |-> q[Len(q) + 1 - k]]

\* Faulty variant of stable_sort: reverse is ignored, the order is ascending.
RECURSIVE stable_sort_ascending(_, _, _, _)
stable_sort_ascending(cs, acc, parameter, reverse) ==
    IF cs = <<>> THEN acc
    ELSE stable_sort_ascending(Tail(cs), insert_sorted(acc, Head(cs), parameter, FALSE),
                               parameter, reverse)

\* Faulty variant of stable_sort: reverse=True is the ascending order turned
\* round, which turns round the cities with equal keys too.
stable_sort_flipped(cs, acc, parameter, reverse) ==
    IF reverse THEN Reverse(stable_sort_ascending(cs, acc, parameter, FALSE))
    ELSE stable_sort_ascending(cs, acc, parameter, FALSE)

\* Stable: built left to right, each element inserted after its equals.
RECURSIVE stable_sort(_, _, _, _)
stable_sort(cs, acc, parameter, reverse) ==
    IF cs = <<>> THEN acc
    ELSE stable_sort(Tail(cs), insert_sorted(acc, Head(cs), parameter, reverse),
                     parameter, reverse)

\* Faulty variant of sort_by: no hasattr check, the key function raises instead.
sort_by_unchecked(cs, parameter, reverse) ==
    IF cs = <<>> THEN [exc |-> "none", cities |-> cs]
    ELSE IF parameter \notin CityFields \cup ObjectAttrs
    THEN [exc |-> "AttributeError", cities |-> cs]
    ELSE IF parameter \in Unorderable
    THEN IF Len(cs) >= 2 THEN [exc |-> "TypeError", cities |-> cs]
         ELSE [exc |-> "none", cities |-> cs]
    ELSE [exc |-> "none", cities |-> stable_sort(cs, <<>>, parameter, reverse)]

sort_by(cs, parameter, reverse) ==
    IF cs = <<>> THEN [exc |-> "IndexError", cities |-> cs]        \* self.cities[0]
    ELSE IF ~hasattr(cs[1], parameter) THEN [exc |-> "ValueError", cities |-> cs]
    ELSE IF parameter \in Unorderable
    THEN \* the keys are classes, which do not order: the first comparison raises
         IF Len(cs) >= 2 THEN [exc |-> "TypeError", cities |-> cs]
         ELSE [exc |-> "none", cities |-> cs]
    ELSE [exc |-> "none", cities |-> stable_sort(cs, <<>>, parameter, reverse)]

---------------------------------------------------------------------------
(* __init__ *)

\* Lines 31-35: validation, the City list, the optional sort.
init_cities(data, sortby, reverse) ==
    IF validate_data(data) # "none"
    THEN [exc |-> validate_data(data), cities |-> <<>>, built |-> 0]
    ELSE LET b == build_cities(data) IN
         IF b.exc # "none" THEN [exc |-> b.exc, cities |-> <<>>, built |-> b.built]
         ELSE IF sortby # NoSort
         THEN LET s == sort_by(b.cities, sortby, reverse) IN
              [exc |-> s.exc, cities |-> s.cities, built |-> b.built]
         ELSE [exc |-> "none", cities |-> b.cities, built |-> b.built]

\* Faulty variant of init: the default floor is 1.
init_floor_one(data, sortby, reverse) ==
    LET r == init_cities(data, sortby, reverse) IN
    [exc |-> r.exc, cities |-> r.cities, built |-> r.built, min_population |-> 1]

\* Line 36 is reached when nothing above raised.
init(data, sortby, reverse) ==
    LET r == init_cities(data, sortby, reverse) IN
    [exc |-> r.exc, cities |-> r.cities, built |-> r.built, min_population |-> 0]

Construct ==
    /\ phase = "new"
    /\ LET r == init(cities_data, arg_sort_by, arg_reverse) IN
       /\ phase' = IF r.exc = "none" THEN "ready" ELSE "failed"
       /\ cities' = r.cities
       /\ built' = r.built
       /\ exc' = r.exc
       /\ min_population' = IF r.exc = "none" THEN r.min_population ELSE min_population
    /\ last' = "init"
    /\ UNCHANGED <<cities_data, arg_sort_by, arg_reverse, has_index, index, ret,
                   yielded, examined, iter_floor, floor_changed, exhausted,
                   has_prev, prev_full>>
    /\ UNCHANGED consumer_vars

---------------------------------------------------------------------------
(* set_population_filter *)

\* Faulty variant of SetPopulationFilter: a traversal under way starts over.
SetPopulationFilterRestarts ==
    /\ phase = "ready"
    /\ \E p \in Floors :
        /\ min_population' = p
        /\ floor_changed' = (floor_changed \/ p # min_population)
        /\ has_prev' = (has_prev /\ p = min_population)
        /\ prev_full' = IF p = min_population THEN prev_full ELSE <<>>
    /\ index' = 0
    /\ exc' = "none"
    /\ ret' = <<>>
    /\ last' = "set"
    /\ UNCHANGED <<cities_data, arg_sort_by, arg_reverse, phase, cities, built,
                   has_index, yielded, examined, iter_floor, exhausted>>
    /\ UNCHANGED consumer_vars

SetPopulationFilter ==
    /\ phase = "ready"
    /\ \E p \in Floors :
        /\ min_population' = p
        /\ floor_changed' = (floor_changed \/ p # min_population)
        /\ has_prev' = (has_prev /\ p = min_population)
        /\ prev_full' = IF p = min_population THEN prev_full ELSE <<>>
    /\ exc' = "none"
    /\ ret' = <<>>
    /\ last' = "set"
    /\ UNCHANGED <<cities_data, arg_sort_by, arg_reverse, phase, cities, built,
                   has_index, index, yielded, examined, iter_floor, exhausted>>
    /\ UNCHANGED consumer_vars

---------------------------------------------------------------------------
(* __iter__ *)

\* Faulty variant of iter_index: an existing cursor is kept.
iter_index_kept(had, c) == IF had THEN c ELSE 0

\* The cursor after __iter__ when it was at c (or did not exist yet).
iter_index(had, c) == 0

\* Faulty variant of Iter: a new traversal clears the floor.
IterClearsFloor ==
    /\ phase = "ready"
    /\ has_index' = TRUE
    /\ index' = 0
    /\ min_population' = 0
    /\ exc' = "none"
    /\ ret' = <<>>
    /\ last' = "iter"
    /\ yielded' = <<>>
    /\ examined' = 0
    /\ iter_floor' = 0
    /\ floor_changed' = FALSE
    /\ exhausted' = FALSE
    /\ has_prev' = FALSE
    /\ prev_full' = <<>>
    /\ UNCHANGED <<cities_data, arg_sort_by, arg_reverse, phase, cities, built>>
    /\ UNCHANGED consumer_vars

\* What __iter__ does to the instance, whoever calls it.
IterCore ==
    /\ phase = "ready"
    /\ has_index' = TRUE
    /\ index' = iter_index(has_index, index)
    /\ exc' = "none"
    /\ ret' = <<>>
    /\ last' = "iter"
    /\ yielded' = <<>>
    /\ examined' = 0
    /\ iter_floor' = min_population
    /\ floor_changed' = FALSE
    /\ exhausted' = FALSE
    /\ has_prev' = (has_prev \/ (has_index /\ exhausted /\ ~floor_changed))
    /\ prev_full' = IF has_index /\ exhausted /\ ~floor_changed THEN yielded
                    ELSE prev_full
    /\ UNCHANGED <<cities_data, arg_sort_by, arg_reverse, phase, cities, built,
                   min_population>>

Iter == IterCore /\ UNCHANGED consumer_vars

---------------------------------------------------------------------------
(* __next__ *)

\* Faulty variant of next_loop: a city whose population equals the floor is skipped.
RECURSIVE next_loop_strict(_, _, _, _)
next_loop_strict(cs, i, f, n) ==
    IF i < Len(cs)
    THEN IF cs[i + 1].population > f
         THEN [exc |-> "none", ret |-> <<cs[i + 1]>>, index |-> i + 1,
               pos |-> i, examined |-> n + 1]
         ELSE next_loop_strict(cs, i + 1, f, n + 1)
    ELSE [exc |-> "StopIteration", ret |-> <<>>, index |-> i, pos |-> i,
          examined |-> n]

\* Faulty variant of next_loop: the first city below the floor ends the traversal.
next_loop_stop_at_skip(cs, i, f, n) ==
    IF i < Len(cs) /\ cs[i + 1].population >= f
    THEN [exc |-> "none", ret |-> <<cs[i + 1]>>, index |-> i + 1, pos |-> i,
          examined |-> n + 1]
    ELSE [exc |-> "StopIteration", ret |-> <<>>, index |-> Len(cs), pos |-> i,
          examined |-> IF i < Len(cs) THEN n + 1 ELSE n]

\* Faulty variant of next_loop: the cursor stays on the city returned.
RECURSIVE next_loop_no_advance(_, _, _, _)
next_loop_no_advance(cs, i, f, n) ==
    IF i < Len(cs)
    THEN IF cs[i + 1].population >= f
         THEN [exc |-> "none", ret |-> <<cs[i + 1]>>, index |-> i,
               pos |-> i, examined |-> n + 1]
         ELSE next_loop_no_advance(cs, i + 1, f, n + 1)
    ELSE [exc |-> "StopIteration", ret |-> <<>>, index |-> i, pos |-> i,
          examined |-> n]

\* Faulty variant of next_loop: reaching the end puts the cursor back at 0.
RECURSIVE next_loop_wrap(_, _, _, _)
next_loop_wrap(cs, i, f, n) ==
    IF i < Len(cs)
    THEN IF cs[i + 1].population >= f
         THEN [exc |-> "none", ret |-> <<cs[i + 1]>>, index |-> i + 1,
               pos |-> i, examined |-> n + 1]
         ELSE next_loop_wrap(cs, i + 1, f, n + 1)
    ELSE [exc |-> "StopIteration", ret |-> <<>>, index |-> 0, pos |-> i,
          examined |-> n]

\* The while loop from cursor i (0-based) with floor f; n counts the cities
\* looked at, pos is the position of the city returned.
RECURSIVE next_loop(_, _, _, _)
next_loop(cs, i, f, n) ==
    IF i < Len(cs)
    THEN IF cs[i + 1].population >= f
         THEN [exc |-> "none", ret |-> <<cs[i + 1]>>, index |-> i + 1,
               pos |-> i, examined |-> n + 1]
         ELSE next_loop(cs, i + 1, f, n + 1)
    ELSE [exc |-> "StopIteration", ret |-> <<>>, index |-> i, pos |-> i,
          examined |-> n]

\* Faulty variant of next_floor: the floor is the one __iter__ saw.
next_floor_snapshot(current, at_iter) == at_iter

\* The floor a __next__ call compares with: self.min_population, read in the loop.
next_floor(current, at_iter) == current

\* What __next__ does to the instance, whoever calls it.
NextCore ==
    /\ phase = "ready"
    /\ last' = "next"
    /\ IF ~has_index
       THEN \* self.index does not exist: reading it raises
            /\ exc' = "AttributeError"
            /\ ret' = <<>>
            /\ UNCHANGED <<index, yielded, examined, exhausted>>
       ELSE LET r == next_loop(cities, index, next_floor(min_population, iter_floor), 0) IN
            /\ exc' = r.exc
            /\ ret' = r.ret
            /\ index' = r.index
            /\ examined' = r.examined
            /\ yielded' = IF r.exc = "none" THEN Append(yielded, r.pos)
                          ELSE yielded
            /\ exhausted' = (exhausted \/ r.exc = "StopIteration")
    /\ UNCHANGED <<cities_data, arg_sort_by, arg_reverse, phase, cities, built,
                   has_index, min_population, iter_floor, floor_changed,
                   has_prev, prev_full>>

NextCall == NextCore /\ UNCHANGED consumer_vars

---------------------------------------------------------------------------
(* Two consumers of one instance: iter(it) gives each the instance itself  *)
(* (line 102), so both call __iter__ and __next__ on the same object.      *)

\* The positions consumer c has received since the last __iter__.
ReceivedBy(c) == {yielded[k] : k \in {l \in 1..Len(yielded) : takers[l] = c}}

ConsumerIter(c) ==
    /\ IterCore
    /\ takers' = <<>>
    /\ before' = [d \in Consumers |-> before[d] \cup ReceivedBy(d)]
    /\ iter_by' = c

ConsumerNext(c) ==
    /\ NextCore
    /\ takers' = IF exc' = "none" THEN Append(takers, c) ELSE takers
    /\ UNCHANGED <<before, iter_by>>

---------------------------------------------------------------------------
(* The inputs. *)

GoodCoords == Coords(coords_fields, Str(<<"1">>), Num(2))

\* A well-formed record: the name tells the input position.
GoodRecord(i, p) == Raw(required_fields, Alphabet[i], "D", p, "S", GoodCoords)

GoodBatchesUpTo(m) ==
    UNION {{[i \in 1..n |-> GoodRecord(i, ps[i])] : ps \in [1..n -> Pops]} : n \in 0..m}

GoodBatches == GoodBatchesUpTo(MaxLen)

SortArgs == {<<NoSort, FALSE>>, <<"population", FALSE>>, <<"population", TRUE>>}

InitObject ==
    /\ phase = "new"
    /\ cities = <<>>
    /\ built = 0
    /\ has_index = FALSE
    /\ index = 0
    /\ min_population = 0
    /\ exc = "none"
    /\ ret = <<>>
    /\ last = "none"
    /\ yielded = <<>>
    /\ examined = 0
    /\ iter_floor = 0
    /\ floor_changed = FALSE
    /\ exhausted = FALSE
    /\ has_prev = FALSE
    /\ prev_full = <<>>
    /\ takers = <<>>
    /\ before = [c \in Consumers |-> {}]
    /\ iter_by = 0

Init ==
    /\ cities_data \in GoodBatches
    /\ \E a \in SortArgs : arg_sort_by = a[1] /\ arg_reverse = a[2]
    /\ InitObject

Next == Construct \/ SetPopulationFilter \/ Iter \/ NextCall

Spec == Init /\ [][Next]_vars

(* Raw batches as a decoded JSON document may hold them: keys missing at   *)
(* the top level or in coords, an extra key, coordinates that are strings, *)
(* numbers or null.                                                        *)
LatValues == {Str(<<"1">>), Str(<<"1", "2">>), Str(<<"x">>), Str(<<>>), Num(2), Null}
LonValues == {Num(2), Str(<<"x">>)}

RawRecords(i) ==
    {Raw(required_fields, Alphabet[i], "D", 1, "S", Coords(coords_fields, la, lo)) :
        la \in LatValues, lo \in LonValues}
    \cup {GoodRecord(i, p) : p \in Pops}
    \cup {Raw(required_fields \ {k}, Alphabet[i], "D", 1, "S", GoodCoords) :
            k \in required_fields}
    \cup {Raw(required_fields, Alphabet[i], "D", 1, "S",
              Coords(ck, Str(<<"1">>), Num(2))) : ck \in SUBSET coords_fields}
    \cup {Raw(required_fields \cup {"extra"}, Alphabet[i], "D", 1, "S", GoodCoords)}

RECURSIVE RawBatchesOfLen(_)
RawBatchesOfLen(n) ==
    IF n = 0 THEN {<<>>}
    ELSE {Append(b, r) : b \in RawBatchesOfLen(n - 1), r \in RawRecords(n)}

RawBatches == UNION {RawBatchesOfLen(n) : n \in 0..MaxBatch}

SortArgsBuild ==
    {<<NoSort, FALSE>>, <<"population", FALSE>>, <<"population", TRUE>>,
     <<"name", TRUE>>, <<"elevation", FALSE>>, <<"elevation", TRUE>>,
     <<"__class__", FALSE>>}

InitBuild ==
    /\ cities_data \in RawBatches
    /\ \E a \in SortArgsBuild : arg_sort_by = a[1] /\ arg_reverse = a[2]
    /\ InitObject

SpecBuild == InitBuild /\ [][Next]_vars

(* Construction with every kind of sort request, then traversals by a      *)
(* caller that never sets the floor.                                       *)
SortArgsSort ==
    {<<f, r>> : f \in CityFields \cup ObjectAttrs \cup {"elevation"}, r \in BOOLEAN}

InitSort ==
    /\ cities_data \in GoodBatches
    /\ \E a \in SortArgsSort : arg_sort_by = a[1] /\ arg_reverse = a[2]
    /\ InitObject

NextDefaultFloor == Construct \/ Iter \/ NextCall

SpecSort == InitSort /\ [][NextDefaultFloor]_vars

(* One traversal: __iter__ is called once, then the caller keeps calling   *)
(* __next__ while the floor may be set at any moment.                      *)
IterFirst == ~has_index /\ Iter

NextOneTraversal == Construct \/ SetPopulationFilter \/ IterFirst \/ NextCall

\* The order of the stored sequence plays no part here: no sort is requested.
InitOneTraversal ==
    /\ cities_data \in GoodBatches
    /\ arg_sort_by = NoSort
    /\ arg_reverse = FALSE
    /\ InitObject

SpecOneTraversal ==
    InitOneTraversal /\ [][NextOneTraversal]_vars /\ WF_vars(NextCall)

(* Two consumers share the instance; the floor is set before the first     *)
(* traversal and stays.                                                    *)
SetFloorFirst == ~has_index /\ SetPopulationFilter

NextShared ==
    \/ Construct
    \/ SetFloorFirst
    \/ \E c \in Consumers : ConsumerIter(c)
    \/ \E c \in Consumers : ConsumerNext(c)

InitShared ==
    /\ cities_data \in GoodBatchesUpTo(MaxShared)
    /\ arg_sort_by = NoSort
    /\ arg_reverse = FALSE
    /\ InitObject

SpecShared == InitShared /\ [][NextShared]_vars

---------------------------------------------------------------------------
(* Properties. *)

\* The 0-based positions of cs, in order.
Positions(cs) == [k \in 1..Len(cs) |-> k - 1]

Qualifies(f, c) == c.population >= f

\* The 0-based positions of the cities of cs with population >= f, in order.
QualifyingPositions(cs, f) ==
    LET keep(k) == Qualifies(f, cs[k + 1]) IN SelectSeq(Positions(cs), keep)

\* A traversal that began with __iter__, ran to exhaustion and saw no change
\* of the floor.
FullTraversal == phase = "ready" /\ has_index /\ exhausted /\ ~floor_changed

\* C1: after set_population_filter(p), a fresh traversal run to exhaustion
\* with no floor change yields exactly the stored cities with population >= p,
\* in stored order, each once.
C1_FilteredTraversal ==
    FullTraversal => yielded = QualifyingPositions(cities, min_population)

C1_Witness ==
    /\ FullTraversal
    /\ arg_sort_by = "population"
    /\ min_population = 1
    /\ Len(yielded) >= 1
    /\ Len(yielded) < Len(cities)

\* C2 as stated: with the floor at 0 a full traversal yields every stored
\* city, whatever the populations the constructor accepted.
C2_Original ==
    (FullTraversal /\ min_population = 0) => yielded = Positions(cities)

\* C2 amended: the constructor leaves the floor at 0, and with the floor at 0
\* a full traversal yields every stored city, in stored order, when no stored
\* population is negative.
C2_FloorZeroYieldsAll ==
    /\ (phase = "ready" /\ last = "init") => min_population = 0
    /\ (/\ FullTraversal
        /\ min_population = 0
        /\ \A k \in 1..Len(cities) : cities[k].population >= 0)
       => yielded = Positions(cities)

C2_Witness ==
    /\ FullTraversal
    /\ min_population = 0
    /\ Len(cities) >= 2
    /\ \A k \in 1..Len(cities) : cities[k].population >= 0
    /\ \E k \in 1..Len(cities) : cities[k].population = 0
    /\ yielded = Positions(cities)

\* C3: a __next__ call from cursor i with floor f returns the city at the
\* smallest position j >= i whose population is >= f and leaves the cursor at
\* j + 1, every city at i..j-1 being below f; when there is no such position
\* it raises StopIteration.
C3_NextStep ==
    [][(phase = "ready" /\ has_index /\ last' = "next") =>
        LET Q == {j \in index .. Len(cities) - 1 : cities[j + 1].population >= min_population}
        IN  IF Q # {}
            THEN LET j == CHOOSE m \in Q : \A o \in Q : m <= o IN
                 /\ exc' = "none"
                 /\ ret' = <<cities[j + 1]>>
                 /\ index' = j + 1
                 /\ \A k \in index .. j - 1 : cities[k + 1].population < min_population
            ELSE /\ exc' = "StopIteration"
                 /\ ret' = <<>>]_vars

C3_Witness ==
    /\ phase = "ready" /\ has_index
    /\ last = "next"
    /\ exc = "none"
    /\ examined >= 2
    /\ index < Len(cities)

\* C4: a city returned by __next__ meets the floor in force at that call, and
\* the cities that call passed over are below that floor, also when the floor
\* was changed after __iter__.
C4_CurrentFloor ==
    (phase = "ready" /\ has_index /\ last = "next" /\ exc = "none") =>
        /\ ret # <<>>
        /\ ret[1].population >= min_population
        /\ \A k \in (index - examined) .. (index - 2) :
              cities[k + 1].population < min_population

C4_Witness ==
    /\ phase = "ready" /\ has_index
    /\ last = "next"
    /\ exc = "none"
    /\ floor_changed
    /\ Len(yielded) >= 2
    /\ ret[1].population < iter_floor

\* C5 as stated: right after a successful constructor call the cursor exists
\* and is 0, the floor is 0, and a __next__ call returns a city or raises
\* StopIteration.
C5_Original ==
    /\ (phase = "ready" /\ last = "init") =>
          (has_index /\ index = 0 /\ min_population = 0)
    /\ (phase = "ready" /\ last = "next") => exc \in {"none", "StopIteration"}

\* C6: __iter__ puts the cursor at 0, wherever it was; a full traversal
\* under an unchanged floor yields what the full traversal before it did.
C6_Reiteration ==
    /\ (phase = "ready" /\ last = "iter") => (has_index /\ index = 0)
    /\ (FullTraversal /\ has_prev) => yielded = prev_full

C6_Witness ==
    /\ FullTraversal
    /\ has_prev
    /\ Len(yielded) >= 2
    /\ Len(yielded) < Len(cities)
    /\ yielded = prev_full

\* A raw record lacking a required key, or whose coords lacks lat or lon.
LacksKey(r) ==
    \/ \E k \in {"name", "district", "population", "subject", "coords"} : k \notin r.keys
    \/ "coords" \in r.keys /\ \E k \in {"lat", "lon"} : k \notin r.coords.keys

\* Python's float() accepts the value: a number, or a text of digits.
Coercible(v) ==
    \/ v.t = "num"
    \/ v.t = "str" /\ Len(v.s) >= 1 /\ \A k \in 1..Len(v.s) : v.s[k] \in {"0", "1", "2"}

ValidRecord(r) == ~LacksKey(r) /\ Coercible(r.coords.lat) /\ Coercible(r.coords.lon)

ValidBatch == \A k \in 1..Len(cities_data) : ValidRecord(cities_data[k])

\* C7: when any record of the batch, at any position, lacks a required key
\* or its coords lacks lat or lon, the constructor raises ValueError before a
\* single City is built: no City list, no iterator.
C7_AllOrNothing ==
    (phase # "new" /\ \E k \in 1..Len(cities_data) : LacksKey(cities_data[k])) =>
        /\ phase = "failed"
        /\ exc = "ValueError"
        /\ built = 0
        /\ cities = <<>>

C7_Witness ==
    /\ phase = "failed"
    /\ Len(cities_data) >= 2
    /\ ValidRecord(cities_data[1])
    /\ LacksKey(cities_data[2])
    /\ built = 0

\* C8: a valid batch constructed without a sort request gives a stored
\* sequence as long as the input whose i-th City holds the fields of the
\* i-th record, lat and lon as numbers.
C8_OrderPreserved ==
    (phase # "new" /\ arg_sort_by = NoSort /\ ValidBatch) =>
        /\ phase = "ready"
        /\ Len(cities) = Len(cities_data)
        /\ \A k \in 1..Len(cities_data) :
              /\ cities[k].name = cities_data[k].name
              /\ cities[k].district = cities_data[k].district
              /\ cities[k].population = cities_data[k].population
              /\ cities[k].subject = cities_data[k].subject
              /\ cities[k].lat = float(cities_data[k].coords.lat).val
              /\ cities[k].lon = float(cities_data[k].coords.lon).val

C8_Witness ==
    /\ phase = "ready"
    /\ arg_sort_by = NoSort
    /\ Len(cities) >= 2
    /\ cities_data[1].coords.lat = Str(<<"1", "2">>)
    /\ cities[1].lat = 12
    /\ cities[1].population > cities[2].population

\* C9: for a non-empty valid batch, a sort field that is no attribute of a
\* City makes the constructor raise ValueError, with reverse true or false:
\* no iterator results.
C9_UnknownSortField ==
    (/\ phase # "new"
     /\ cities_data # <<>>
     /\ ValidBatch
     /\ arg_sort_by \notin {NoSort, "name", "lat", "lon", "district", "population",
                            "subject", "__class__", "__doc__"})
    => (phase = "failed" /\ exc = "ValueError")

C9_Witness ==
    /\ phase = "failed"
    /\ exc = "ValueError"
    /\ Len(cities_data) >= 2
    /\ ValidBatch
    /\ arg_sort_by = "elevation"
    /\ arg_reverse

\* C10 as stated: with an empty batch and a sort request the constructor
\* returns without raising.
C10_Original ==
    (phase # "new" /\ cities_data = <<>> /\ arg_sort_by # NoSort) =>
        (phase = "ready" /\ exc = "none")

\* The value of the attribute a sort field names.
Attr(c, f) ==
    CASE f = "name" -> c.name
      [] f = "district" -> c.district
      [] f = "subject" -> c.subject
      [] f = "population" -> c.population
      [] f = "lat" -> c.lat
      [] f = "lon" -> c.lon

\* Where the record a City was built from stands in the input: the names of
\* a batch are pairwise different.
InputPosition(c) == CHOOSE k \in 1..Len(cities_data) : cities_data[k].name = c.name

\* C11: the sort is stable, with reverse false and true: two stored cities
\* with equal sort keys stand in the order their records had in the input.
C11_StableSort ==
    (phase = "ready" /\ arg_sort_by \in CityFields) =>
        \A i, j \in 1..Len(cities) :
            (i < j /\ Attr(cities[i], arg_sort_by) = Attr(cities[j], arg_sort_by))
            => InputPosition(cities[i]) < InputPosition(cities[j])

C11_Witness ==
    /\ phase = "ready"
    /\ arg_sort_by = "population"
    /\ arg_reverse
    /\ Len(cities) >= 3
    /\ cities[1].population = cities[2].population
    /\ cities[2].population > cities[3].population
    /\ InputPosition(cities[3]) = 1

DistinctPopulations ==
    \A i, j \in 1..Len(cities_data) :
        i # j => cities_data[i].population # cities_data[j].population

\* The cities a full traversal has returned, in the order returned.
YieldedCities == [k \in 1..Len(yielded) |-> cities[yielded[k] + 1]]

\* What a full traversal at floor f returns from a stored sequence cs.
Traversed(cs, f) == LET keep(c) == c.population >= f IN SelectSeq(cs, keep)

\* C12: for a batch of pairwise distinct populations, the full traversal at
\* floor 0 after sort_by=population with one value of reverse is the reverse
\* of the full traversal at floor 0 after sort_by=population with the other.
C12_ReverseMirrors ==
    (/\ FullTraversal
     /\ min_population = 0
     /\ arg_sort_by = "population"
     /\ DistinctPopulations)
    => YieldedCities =
         Reverse(Traversed(init(cities_data, "population", ~arg_reverse).cities, 0))

C12_Witness ==
    /\ FullTraversal
    /\ min_population = 0
    /\ arg_sort_by = "population"
    /\ arg_reverse
    /\ DistinctPopulations
    /\ Len(cities) >= 3
    /\ Len(yielded) >= 2
    /\ cities_data[1].population < cities_data[2].population

\* C13 as stated, for a non-empty valid batch: a sort request is accepted
\* when its tag is one of the six City fields, and any other tag makes the
\* constructor raise ValueError.
C13_Original ==
    (phase # "new" /\ cities_data # <<>>) =>
        IF arg_sort_by \in {"name", "population", "lat", "lon", "district", "subject"}
        THEN phase = "ready"
        ELSE phase = "failed" /\ exc = "ValueError"

\* C14: once constructed, the stored sequence and its order never change;
\* set_population_filter leaves the cursor as it is; __iter__ and __next__
\* leave the floor as it is.
C14_Frame ==
    [][phase = "ready" =>
        /\ cities' = cities
        /\ last' = "set" => (has_index' = has_index /\ index' = index)
        /\ last' \in {"iter", "next"} => min_population' = min_population]_vars

C14_Witness ==
    /\ phase = "ready" /\ has_index
    /\ last = "set"
    /\ index >= 2
    /\ index < Len(cities)
    /\ min_population # iter_floor
    /\ arg_sort_by = "population"
    /\ InputPosition(cities[1]) # 1

\* C15 as stated: when every record has its keys and some lat or lon is not
\* coercible to a float (a text that is no number, or null), the constructor
\* raises ValueError and no City list results.
C15_Original ==
    (/\ phase # "new"
     /\ \A k \in 1..Len(cities_data) : ~LacksKey(cities_data[k])
     /\ \E k \in 1..Len(cities_data) :
           \/ ~Coercible(cities_data[k].coords.lat)
           \/ ~Coercible(cities_data[k].coords.lon))
    => (phase = "failed" /\ exc = "ValueError" /\ cities = <<>>)

\* The cursor is within the stored sequence, and the positions returned since
\* __iter__ are strictly increasing and all before the cursor.
CursorInRange ==
    (phase = "ready" /\ has_index) =>
        /\ 0 <= index /\ index <= Len(cities)
        /\ \A k \in 1..Len(yielded) : 0 <= yielded[k] /\ yielded[k] < index
        /\ \A k, l \in 1..Len(yielded) : k < l => yielded[k] < yielded[l]

\* C16: after __iter__ the cursor stays within 0..length under every
\* interleaving of the three calls; between two __iter__ calls it never
\* decreases, so the positions returned in one traversal strictly increase
\* and none is returned twice, whatever the floor does.
C16_CursorMonotone ==
    /\ []CursorInRange
    /\ [][(phase = "ready" /\ has_index /\ last' # "iter") => index' >= index]_vars

C16_Witness ==
    /\ phase = "ready" /\ has_index
    /\ floor_changed
    /\ index = Len(cities)
    /\ Len(yielded) >= 2
    /\ yielded[2] > yielded[1] + 1

\* C17: once __next__ has raised StopIteration the cursor is at the length,
\* and until __iter__ every __next__ raises StopIteration again and changes
\* nothing, also after the floor was lowered: what was skipped stays skipped.
C17_StickyExhaustion ==
    /\ []((phase = "ready" /\ has_index /\ exhausted) => index = Len(cities))
    /\ [][(phase = "ready" /\ has_index /\ exhausted /\ last' = "next") =>
            /\ exc' = "StopIteration"
            /\ ret' = <<>>
            /\ index' = index
            /\ cities' = cities
            /\ min_population' = min_population
            /\ yielded' = yielded]_vars

C17_Witness ==
    /\ phase = "ready" /\ has_index /\ exhausted
    /\ last = "next"
    /\ exc = "StopIteration"
    /\ min_population < iter_floor
    /\ Len(yielded) < Len(QualifyingPositions(cities, min_population))

\* C18: a __next__ call from cursor c looks at no more than length - c
\* cities, each city returned moves the cursor on by at least one, and a
\* caller that keeps calling __next__ after __iter__ reaches StopIteration,
\* whatever the floor does in between.
C18_Terminates ==
    /\ [][(phase = "ready" /\ has_index /\ last' = "next") =>
            /\ examined' <= Len(cities) - index
            /\ index' <= Len(cities)
            /\ Len(yielded') - Len(yielded) <= index' - index]_vars
    /\ ((phase = "ready" /\ has_index) ~> exhausted)

C18_Witness ==
    /\ phase = "ready" /\ has_index /\ exhausted
    /\ floor_changed
    /\ Len(cities) >= 3
    /\ Len(yielded) >= 1
    /\ Len(yielded) < Len(cities)

\* C19: the consumers share one cursor. Within a traversal, under a fixed
\* floor, no position is delivered twice, so the consumers receive disjoint
\* sets of positions, which at exhaustion make up the qualifying positions;
\* an __iter__ by either consumer puts the one cursor back at 0 for both.
C19_SharedCursor ==
    /\ [](phase = "ready" =>
            /\ Len(takers) = Len(yielded)
            /\ \A k, l \in 1..Len(yielded) : k # l => yielded[k] # yielded[l]
            /\ ReceivedBy(1) \cap ReceivedBy(2) = {}
            /\ (has_index /\ exhausted) =>
                  ReceivedBy(1) \cup ReceivedBy(2) =
                     {q \in 0 .. Len(cities) - 1 : cities[q + 1].population >= min_population})
    /\ [][(phase = "ready" /\ iter_by' # iter_by) => (has_index' /\ index' = 0)]_vars

\* The consumer that did not call __iter__ receives again a position it had
\* received before that call.
C19_Witness ==
    /\ phase = "ready" /\ has_index
    /\ iter_by = 1
    /\ ReceivedBy(1) = {}
    /\ ReceivedBy(2) \cap before[2] # {}
    /\ before[1] # {}

===========================================================================
